---------------------------- MODULE Spec2Model ----------------------------
(***************************************************************************)
(* The survey generator: the FastAPI endpoint of main.py                   *)
(* (POST /api/ai/survey-generator, generate_survey) and the Streamlit form *)
(* app of app.py (survey_form), with the lookups and prompt builders both  *)
(* rest on.                                                                *)
(*                                                                         *)
(* Text is a sequence of chunks (strings): an f-string is the              *)
(* concatenation of its literal pieces and its substituted values, each a  *)
(* chunk.  Whitespace at the ends of a text is made of chunks of its own,  *)
(* so that str.strip is an operation on the sequence.  The text the model  *)
(* API returns is a sequence of JSON lexemes and whitespace chunks, which  *)
(* json.loads parses.                                                      *)
(***************************************************************************)
EXTENDS Integers, Sequences, FiniteSets, Bags, TLC

(***************************************************************************)
(* Bounds of the model.                                                    *)
(***************************************************************************)
\* Requests of the endpoint that are in flight together.
NumReqs == 2
\* Longest burningProblems list a caller sends.
MaxProblems == 4
\* Longest JSON array the text generator answers with.
MaxItems == 11
\* Calls of the lookups and prompt builders one behaviour records.
MaxCalls == 3

\* main.py line 195 (len(parsed) == 10).
ExpectedItems == 10
\* main.py line 178 (len(burningProblems) != 3).
RequiredProblems == 3

None == "None"

(***************************************************************************)
(* The stage-keyed tables.                                                 *)
(***************************************************************************)
\* stage_strategies, src/main.py lines 36-87: the dict literal get_stage_focus builds on
\* every call: stage |-> strategy.
stage_strategies ==
    "IDEATION & PLANNING" :>
      [primary_focus |-> "Problem validation and market need confirmation",
       question_types |-> <<
          "Problem severity and frequency validation",
          "Current solution gaps and pain points",
          "Market size and willingness to pay",
          "Competitive landscape awareness">>,
       validation_goal |-> "Confirm the problems are real and worth solving"] @@
    "PROTOTYPE DEVELOPMENT" :>
      [primary_focus |-> "Solution fit and technical feasibility validation",
       question_types |-> <<
          "Solution approach validation",
          "Feature priority and core functionality",
          "Technical constraints and requirements",
          "User workflow and interaction patterns">>,
       validation_goal |-> "Validate the proposed solution addresses the core problems effectively"] @@
    "VALIDATION & ITERATION" :>
      [primary_focus |-> "Product-market fit and user experience optimization",
       question_types |-> <<
          "Product satisfaction and recommendation likelihood",
          "Usage patterns and adoption barriers",
          "Feature gaps and improvement priorities",
          "Pricing sensitivity and value perception">>,
       validation_goal |-> "Optimize product-market fit and identify iteration priorities"] @@
    "LAUNCH & SCALING" :>
      [primary_focus |-> "Go-to-market validation and scaling readiness",
       question_types |-> <<
          "Market positioning and messaging effectiveness",
          "Distribution channel preferences",
          "Scaling bottlenecks and operational challenges",
          "Customer acquisition and retention factors">>,
       validation_goal |-> "Validate go-to-market strategy and identify scaling challenges"] @@
    "GROWTH & OPTIMIZATION" :>
      [primary_focus |-> "Growth levers and market expansion opportunities",
       question_types |-> <<
          "Growth constraint identification",
          "Market expansion and new use case validation",
          "Customer lifetime value optimization",
          "Competitive differentiation and moat building">>,
       validation_goal |-> "Identify growth opportunities and optimize market position"]


\* IDEATION_GUARDRAILS, src/app.py lines 34-139: the dict in its insertion order, each
\* entry [name, description, example_questions] (non-ASCII punctuation written in ASCII).
IDEATION_GUARDRAILS_INIT ==
  <<
    [name |-> "PROBLEM RELEVANCE",
     description |-> "Checks whether the target user faces the problem the product solves. Helps reveal frequency & intensity of the problem.",
     example_questions |-> <<
          "How often do you face [the problem] in your daily or professional life?",
          "On a scale of 1-10, how disruptive is [this problem] to your goals or tasks?",
          "What's the most frustrating part of dealing with [insert problem domain] in your daily routine?",
          "On a scale of 1-5, how important is solving this problem for you right now?",
          "If you had a magic wand, which problem would you fix first? [Option A: Problem the startup solves] [Option B: Another major problem] [Option C: None]",
          "How often does this problem interrupt or slow down your work/life? (1 = Never, 5 = Constantly)",
          "What have you done in the past to try to fix or avoid this problem?",
          "Have you ever wished there was a better solution for this issue? Yes/No?">>],
    [name |-> "PROBLEM AWARENESS",
     description |-> "Measures if users know they have this problem. Distinguishes latent vs obvious problems.",
     example_questions |-> <<
          "Have you ever actively tried to solve [this problem]?",
          "Before hearing about this solution, how aware were you of [this problem] being an issue for you?",
          "How clearly do you understand the nature of this problem in your own context? (1 = I've never thought about it, 5 = I think about it all the time)",
          "When did you first become aware that this was a problem?",
          "Do you think most people in your role even recognize this as a problem? Yes/No",
          "How much do you feel this issue affects people like you? (1 = Very little, 5 = Very significantly)",
          "How would you describe your awareness of this problem? [I'm very aware] [I've seen it happen but don't think about it] [I didn't realize it was a real issue until now] [I'm not sure it exists]",
          "Can you describe a moment or example when this problem stood out to you?">>],
    [name |-> "CURRENT SOLUTIONS",
     description |-> "Understand what users currently use to solve the problem. Reveals competition and workarounds.",
     example_questions |-> <<
          "What tools or methods do you currently use to deal with [this problem]?",
          "How satisfied are you with your current way of handling [this problem]?",
          "How are you currently solving this problem today?",
          "What do you currently use? [Excel/Manual methods] [Known competitor] [Internal workaround] [I don't solve it - I tolerate it]",
          "How satisfied are you with your current solution? (1 = Not at all, 5 = Very satisfied)",
          "What's the biggest limitation of your current approach?",
          "Have you ever considered switching to another solution? Yes/No",
          "If something better came along, how likely are you to switch? (1 = Not likely, 5 = Immediately)">>],
    [name |-> "WILLINGNESS TO PAY",
     description |-> "Measures if users value the solution enough to pay or switch. Gauges monetization potential.",
     example_questions |-> <<
          "If a solution solved this problem completely, would you be willing to pay for it?",
          "What is the maximum you'd consider paying for a solution that addresses this need well?",
          "If a solution truly solved this for you, how much would you pay per month for it? (1 = Nothing, 5 = Premium pricing if it works)",
          "What kind of pricing would feel fair to you for solving this?",
          "Have you paid for any similar tools or services before? Yes/No",
          "Which pricing model would you prefer? [Monthly Subscription] [One-time Payment] [Pay-per-use] [Freemium]",
          "How confident are you that you'd pay for a working solution today? (1 = Not at all, 5 = Very confident)",
          "What would stop you from paying for a solution like this?">>],
    [name |-> "TARGET USER FIT",
     description |-> "Confirms if the respondent matches the intended persona. Ensures relevance of data.",
     example_questions |-> <<
          "Which best describes your role when encountering [this problem]?",
          "Have you experienced [this problem] in your personal or professional context?",
          "What best describes your role, background, or daily work/life context?",
          "Which of these applies to you? [Student] [Professional] [Founder] [Other: _______]",
          "How closely do you feel this solution is built for someone like you? (1 = Not at all, 5 = Exactly like me)",
          "Do you regularly face the kind of situations this solution addresses? Yes/No",
          "Who else do you know that faces this same problem?",
          "How many people in your circle would also relate to this issue? [Just me] [A few people] [A lot of people I know]">>],
    [name |-> "OUTCOME EXPECTATION",
     description |-> "Understand the result users hope to achieve. Clarifies value proposition.",
     example_questions |-> <<
          "What would success look like if a product solved this problem for you?",
          "What is the most important result you'd expect from using a product like this?",
          "If this problem was magically solved for you, what would your life/work look like afterward?",
          "How much impact would a working solution make for you? (1 = Minimal, 5 = Game-changing)",
          "What does success look like for you when using a solution to this problem?",
          "What kind of result do you care about most? [Saving time] [Reducing stress] [Saving money] [Improving performance] [Other: ______]",
          "How confident are you that a new product could deliver the outcome you want? (1 = Not at all, 5 = Very confident)",
          "Have you ever tried a tool that failed to meet your expectations? What was missing?">>],
    [name |-> "DEMOGRAPHIC FIT",
     description |-> "Captures job, location, age, behavior, etc. Useful for segmentation.",
     example_questions |-> <<
          "What is your age group, job role, or industry (if relevant to this context)?",
          "Which category best describes your current situation as it relates to [this product/problem]?",
          "Which of these best describes your role or occupation? [Student] [Working professional] [Entrepreneur] [Freelancer] [Other: ______]",
          "Which city and country are you based in?",
          "How experienced are you in [problem area]? (1 = Newbie, 5 = Very experienced)",
          "What is your age range? [Under 18] [18-24] [25-34] [35-44] [45+]",
          "Do you consider yourself tech-savvy? Yes/No",
          "Briefly describe your work/study background (e.g., design, tech, healthcare, education).">>],
    [name |-> "MARKET TIMING SENSITIVITY",
     description |-> "Whether users feel this is the right time for the solution. Signals market readiness.",
     example_questions |-> <<
          "Is solving this problem a priority for you this month/quarter/year?",
          "If this product were available today, how soon would you consider trying it?",
          "How urgent is this problem for you right now? (1 = Can wait, 5 = Needs solving immediately)",
          "Why do you think now is the right time for a solution like this?",
          "If this was available today, how soon would you try it? [Immediately] [Within a week] [Eventually] [Never]",
          "Has something changed recently that made this problem worse? Yes/No",
          "Do you think the timing is right for this solution to succeed in the market? (1 = Too early, 5 = Just right)",
          "What would make now the best time to bring this idea to life?">>]
  >>

\* PROTOTYPE_GUARDRAILS, src/app.py lines 141-246: the dict in its insertion order, each
\* entry [name, description, example_questions] (non-ASCII punctuation written in ASCII).
PROTOTYPE_GUARDRAILS_INIT ==
  <<
    [name |-> "WILLINGNESS TO PAY",
     description |-> "Measures if users value the solution enough to pay or switch. Gauges monetization potential.",
     example_questions |-> <<
          "If this product solved your problem well, how likely are you to pay for it? (1 = Not at all, 5 = Definitely)",
          "What would feel like a fair monthly or one-time price for this product?",
          "Have you paid for similar tools or services before? Yes/No",
          "Which pricing model would you prefer? [Monthly subscription] [One-time fee] [Freemium + premium upgrade] [Pay-per-use]",
          "How confident are you that this product is worth paying for? (1 = Not confident, 5 = Absolutely worth it)",
          "What would make you willing to pay more for this product?",
          "If this product improved [key feature], would you consider upgrading to a paid version? Yes/No",
          "How painful would it be to lose access to this tool once you've used it? (1 = Not at all, 5 = Very painful)">>],
    [name |-> "TARGET USER FIT",
     description |-> "Confirms if the respondent matches the intended persona. Ensures relevance of data.",
     example_questions |-> <<
          "What do you do professionally (or in daily life)?",
          "Does this product feel like it's designed for someone like you? Yes/No",
          "How well does this solution fit your lifestyle/workflow? (1 = Not at all, 5 = Perfect fit)",
          "Which industry best describes your work? [Tech] [Education] [Healthcare] [Finance] [Other]",
          "How often do you face the problem this product solves?",
          "Do you feel like your use case was clearly considered in the prototype? (1 = Not at all, 5 = Definitely)",
          "Would you be willing to join a user feedback or beta testing group for this product? Yes/No",
          "What's the #1 reason this product does or doesn't feel like it's for you?">>],
    [name |-> "FEATURE PRIORITY",
     description |-> "Identifies which features matter most to the user. Prioritizes MVP scope.",
     example_questions |-> <<
          "What's the one feature in this product you would not want to lose?",
          "Which feature do you consider absolutely essential? [Feature A] [Feature B] [Feature C] [None of these]",
          "How useful is [specific feature] to your workflow? (1 = Not useful, 5 = Extremely useful)",
          "Rank these features based on importance to you.",
          "If we removed your favorite feature, would you still use this product? Yes/No",
          "Which feature feels unnecessary or overbuilt right now?",
          "How well does the current feature set solve your problem? (1 = Poorly, 5 = Perfectly)",
          "What feature do you wish we had included in this version?">>],
    [name |-> "FREQUENCY OF USE",
     description |-> "How often the product would be used. Estimates stickiness and utility.",
     example_questions |-> <<
          "How often would you use this tool if it worked perfectly? (1 = Once a year, 5 = Daily)",
          "What type of task would make you return to this product often?",
          "Would this replace any tool or habit you currently use? Yes/No",
          "When would you most likely use this? [Daily task] [Weekly planning] [Monthly project] [Emergency-only]",
          "What would increase your frequency of use?",
          "How much does the product feel like a \"daily tool\" vs. a \"one-off\"? (1 = One-off, 5 = Daily essential)",
          "Would you recommend your team or colleagues use it regularly? Yes/No",
          "What needs to change for this tool to become part of your routine?">>],
    [name |-> "ADOPTION BARRIERS",
     description |-> "What might stop the user from trying the product. Uncovers friction or confusion.",
     example_questions |-> <<
          "What would prevent you from using this product regularly?",
          "What's the biggest barrier to adoption? [I don't understand it] [Trust issues] [Too expensive] [Doesn't solve my problem fully] [No clear need right now]",
          "How easy was the product to understand and get started with? (1 = Very hard, 5 = Super easy)",
          "Did you feel confident using the product on your own? Yes/No",
          "How likely are you to continue using this after the first try? (1 = Not likely, 5 = Very likely)",
          "What additional help (onboarding, demos, videos) would make you adopt this faster?",
          "What was confusing about the product (if anything)? [Interface] [Features] [Terminology] [Nothing was confusing]",
          "What's one thing we can fix to make adoption frictionless?">>],
    [name |-> "OUTCOME EXPECTATION",
     description |-> "Understand the result users hope to achieve. Clarifies value proposition.",
     example_questions |-> <<
          "What was the result you expected from using the prototype?",
          "Did this product deliver the outcome you hoped for? Yes/No",
          "How satisfied were you with the end result? (1 = Not at all, 5 = Extremely)",
          "What did the product not do that you expected it to?",
          "What type of value do you expect most from this tool? [Save time] [Save money] [Reduce effort] [Improve output]",
          "How well did this match your mental model of the ideal solution? (1 = Not close, 5 = Spot on)",
          "If we improved one thing to better match your expectations, what would it be?",
          "Would you say the product is effective enough to solve your problem long-term? Yes/No">>],
    [name |-> "DEMOGRAPHIC FIT",
     description |-> "Captures job, location, age, behavior, etc. Useful for segmentation.",
     example_questions |-> <<
          "What is your age range? [Under 18] [18-24] [25-34] [35-44] [45-54] [55+]",
          "What city and country are you currently based in?",
          "What is your highest level of education? [High school] [Bachelor's degree] [Master's degree] [PhD] [Other]",
          "What is your current profession or area of work/study?",
          "Do you use digital tools or software regularly in your daily routine? Yes/No",
          "How would you describe your tech familiarity? [Beginner] [Intermediate] [Advanced] [Expert]",
          "How often do you face the specific problem this product aims to solve?",
          "How much does this product fit people in your demographic group? (1 = Not at all, 5 = Perfectly)">>],
    [name |-> "REFERRAL LIKELIHOOD",
     description |-> "Whether users would tell others about the product. Measures viral potential.",
     example_questions |-> <<
          "How likely are you to recommend this product to someone else? (1 = Never, 5 = Definitely)",
          "Why would or wouldn't you tell a friend or colleague about this?",
          "Would you share this product on your LinkedIn/Twitter/WhatsApp group? Yes/No",
          "Who in your network would find this most useful? [Coworkers] [Friends] [Students] [Industry peers] [Not sure]",
          "How confident are you in the value this product delivers to others? (1 = Not confident, 5 = Very confident)",
          "What feature or moment made you say \"Wow - others need this\"?",
          "Would you refer this product if you got early access or perks? Yes/No",
          "What would make this product something you're proud to recommend?">>]
  >>

(***************************************************************************)
(* State.                                                                  *)
(***************************************************************************)
VARIABLES
  IDEATION_GUARDRAILS,   \* app.py module global (line 34)
  PROTOTYPE_GUARDRAILS,  \* app.py module global (line 141)
  call_log,              \* the calls made of the lookups and prompt builders: a
                         \* bag of records [fn, args, raised, ret]
  sdk_accepts_format,    \* whether the installed SDK's messages.create takes format=
  pc,                    \* per request: where generate_survey stands
  payload,               \* per request: the SurveyRequest
  prompt,                \* per request: the prompt built (<<>>: none)
  generated,             \* per request: the text of the API's response
  raw_output,            \* per request: what query_claude returned
  response,              \* per request: the JSONResponse returned
  creates,               \* per request: calls of client.messages.create
  invoked,               \* per request: calls that reached the text generator
  form_pc,               \* the form app: where the script run stands
  form_input,            \* the form app: the submitted fields
  form_prompt,           \* the form app: the prompt built (<<>>: none)
  form_generated,        \* the form app: the text of the API's response
  form_raw_output,       \* the form app: what query_claude returned
  form_ui,               \* the form app: the elements shown, in order
  form_creates           \* the form app: calls of client.messages.create

tables == <<IDEATION_GUARDRAILS, PROTOTYPE_GUARDRAILS>>
http == <<sdk_accepts_format, pc, payload, prompt, generated, raw_output,
          response, creates, invoked>>
form == <<form_pc, form_input, form_prompt, form_generated, form_raw_output,
          form_ui, form_creates>>

(***************************************************************************)
(* Text helpers.                                                           *)
(***************************************************************************)
\* The chunks str.strip removes from the ends of a text.
Whitespace == {" ", "\n", "\t", "\r"}

\* sep.join(parts): parts is a sequence of texts.
RECURSIVE join(_, _)
join(sep, parts) ==
  IF parts = <<>> THEN <<>>
  ELSE IF Len(parts) = 1 THEN parts[1]
  ELSE parts[1] \o sep \o join(sep, Tail(parts))

\* str.strip(): the text without its leading and trailing whitespace.
RECURSIVE lstrip(_)
lstrip(text) ==
  IF text # <<>> /\ text[1] \in Whitespace THEN lstrip(Tail(text)) ELSE text

RECURSIVE rstrip(_)
rstrip(text) ==
  IF text # <<>> /\ text[Len(text)] \in Whitespace
  THEN rstrip(SubSeq(text, 1, Len(text) - 1))
  ELSE text

strip(text) == rstrip(lstrip(text))

\* The lines numbered as enumerate numbers them, from 0.
enumerate_lines_from0(xs) ==
  [i \in 1..Len(xs) |-> <<ToString(i - 1), ". ", xs[i]>>]

\* [f"{i+1}. {x}" for i, x in enumerate(xs)]
enumerate_lines(xs) == [i \in 1..Len(xs) |-> <<ToString(i), ". ", xs[i]>>]

(***************************************************************************)
(* Input schemas.                                                          *)
(***************************************************************************)
\* main.py StartupAnalysis.stage (line 23).
MainStages ==
  {"IDEATION & PLANNING", "PROTOTYPE DEVELOPMENT", "VALIDATION & ITERATION",
   "LAUNCH & SCALING", "GROWTH & OPTIMIZATION"}

\* app.py StartupAnalysis.stage (line 28).
AppStages == {"IDEATION & PLANNING", "PROTOTYPE DEVELOPMENT"}

(***************************************************************************)
(* Lookups.                                                                *)
(***************************************************************************)
\* The default entry whatever the stage.
get_stage_focus_default(stage) == stage_strategies["IDEATION & PLANNING"]

\* main.py get_stage_focus: stage_strategies.get(stage, <the first entry>).
get_stage_focus(stage) ==
  IF stage \in DOMAIN stage_strategies
  THEN stage_strategies[stage]
  ELSE stage_strategies["IDEATION & PLANNING"]

\* app.py get_guardrails_for_stage: {} for any other stage.
get_guardrails_for_stage(stage) ==
  IF stage = "IDEATION & PLANNING" THEN IDEATION_GUARDRAILS
  ELSE IF stage = "PROTOTYPE DEVELOPMENT" THEN PROTOTYPE_GUARDRAILS
  ELSE <<>>

(***************************************************************************)
(* Prompt builders.                                                        *)
(***************************************************************************)
\* main.py build_stage_specific_survey_prompt.  The bullet of line 125 is
\* written "* ".
build_stage_specific_survey_prompt(surveyPurpose, startupAnalysis) ==
  LET stage_strategy == get_stage_focus(startupAnalysis.stage)
  IN  <<"\nYou are an expert product researcher helping a founder run a user survey for a startup in the **",
        startupAnalysis.stage,
        "** stage.\n\n--- Startup Details ---\nTitle: ",
        startupAnalysis.title,
        "\nDescription: ",
        startupAnalysis.description,
        "\nCurrent Stage: ",
        startupAnalysis.stage,
        "\nSurvey Purpose: ",
        surveyPurpose,
        "\n\n--- Critical Burning Problems to Address ---\n">>
      \o join(<<"\n">>, enumerate_lines(startupAnalysis.burningProblems))
      \o <<"\n\n--- Stage-Specific Focus ---\nPrimary Focus: ",
           stage_strategy.primary_focus,
           "\nValidation Goal: ",
           stage_strategy.validation_goal,
           "\n\nCRITICAL INSTRUCTIONS:\n- Generate **exactly 10 questions** that are laser-focused on the 3 burning problems above\n- Each question must directly validate assumptions related to these specific problems\n- Tailor questions to the **",
           startupAnalysis.stage,
           "** stage requirements\n- Focus on: ",
           stage_strategy.primary_focus,
           "\n\nQuestion Distribution Strategy:\n- 6 questions directly addressing the 3 burning problems (2 questions per burning problem)\n- 2 questions about stage-specific validation needs\n- 1 question about user behavior/workflow \n- 1 question about future priorities/concerns\n\nQuestion Types Based on Stage:\n">>
      \o join(<<"\n">>,
              [i \in 1..Len(stage_strategy.question_types) |->
                 <<"* ", stage_strategy.question_types[i]>>])
      \o <<"\n\nGuidelines:\n- Make questions specific to the burning problems, not generic\n- Use \"scale\" for quantitative validation, \"text\" for qualitative insights\n- Avoid multiple choice questions\n- Each question should test a specific assumption about the burning problems\n\nReturn only a valid JSON array with exactly 10 items, each structured like this:\n[\n  {\n    \"text\": \"...\",\n    \"bucket\": \"burning_problem_1\" | \"burning_problem_2\" | \"burning_problem_3\" | \"stage_validation\" | \"user_behavior\" | \"future_priorities\",\n    \"type\": \"scale\" | \"text\",\n    \"burning_problem_reference\": 1 | 2 | 3 | null\n  },\n  ...\n]\n">>

\* app.py lines 264-271: one section of the prompt per guardrail, in the
\* dict's order.
guardrail_section(guardrail) ==
  <<"\n", guardrail.name, ": ", guardrail.description,
    "\n  Example questions you can reference (DO NOT copy exactly, but use as inspiration):\n    ">>
  \o join(<<"\n    ">>,
          [i \in 1..Len(guardrail.example_questions) |->
             <<"- ", guardrail.example_questions[i]>>])
  \o <<"\n">>

\* app.py lines 275-326: the prompt template around guardrail_content.  Its
\* first and last line breaks are chunks of their own, which the final
\* strip() removes.
guardrail_prompt(surveyPurpose, startupAnalysis, guardrail_content) ==
      strip(
        <<"\n",
          "You are a user researcher creating a 10-question survey designed to validate assumptions for a startup in the **",
          startupAnalysis.stage,
          "** stage.\n\n--- Startup Overview ---\nTitle: ",
          startupAnalysis.title,
          "\nDescription: ",
          startupAnalysis.description,
          "\nStage: ",
          startupAnalysis.stage,
          "\nSurvey Purpose: ",
          surveyPurpose,
          "\n\n--- Burning Problems to Validate ---\n">>
        \o join(<<"\n">>, enumerate_lines(startupAnalysis.burningProblems))
        \o <<"\n\n--- Guardrail Categories with Example Questions ---\n">>
        \o guardrail_content
        \o <<"\n\nSURVEY STRUCTURE REQUIREMENTS:\n- Generate **exactly 10 questions**\n- **3 questions** must reference burning problems (1 question per burning problem)\n- **7 questions** must be based on guardrails from the above list\n- Use a **diverse mix of question types**:\n  * **scale** questions (1-5 or 1-10 rating scales)\n  * **mcq** questions (multiple choice with options)\n  * **yes_no** questions (simple Yes/No)\n  * **text** questions (open-ended text responses)\n\nQUESTION REQUIREMENTS:\n- Each question must test a real-world assumption that a user (not the founder) can answer\n- Questions should be customer-facing and user-friendly\n- Use the example questions as REFERENCE ONLY - do not copy them exactly\n- Create original questions inspired by the guardrail concepts\n- Ensure questions are actionable and provide meaningful insights\n- For MCQ questions, provide 3-5 relevant options in square brackets\n\nReturn only valid JSON in this EXACT format:\n[\n  {\n    \"text\": \"Your question text here\",\n    \"bucket\": \"burning_problem_1\" | \"burning_problem_2\" | \"burning_problem_3\" | \"guardrail:<GUARDRAIL_NAME>\",\n    \"type\": \"scale\" | \"mcq\" | \"yes_no\" | \"text\",\n    \"burning_problem_reference\": 1 | 2 | 3 | null\n  },\n  ...\n]\n\nIMPORTANT: \n- For MCQ questions, include options within the question text using square brackets\n- For scale questions, specify the scale range in the question text\n- Ensure exactly 3 questions have burning_problem_reference values (1, 2, 3)\n- Ensure exactly 7 questions have guardrail buckets\n- Use diverse question types across all 10 questions",
             "\n">>)

\* app.py lines 260-273: guardrail_sections, a list local to the call.
guardrail_sections_of(guardrails) ==
  [i \in 1..Len(guardrails) |-> guardrail_section(guardrails[i])]

\* guardrail_sections kept across calls (a list of the module, appended to
\* and never cleared): the sections of the earlier calls come first.
build_guardrail_based_prompt_shared_list(surveyPurpose, startupAnalysis) ==
  LET earlier ==
        {c.args[2].stage : c \in {d \in BagToSet(call_log) :
                                    d.fn = "build_guardrail_based_prompt"}}
      before(stage) ==
        IF stage \in earlier
        THEN guardrail_sections_of(get_guardrails_for_stage(stage))
        ELSE <<>>
      guardrail_sections ==
        before("IDEATION & PLANNING") \o before("PROTOTYPE DEVELOPMENT")
          \o guardrail_sections_of(
                get_guardrails_for_stage(startupAnalysis.stage))
  IN  guardrail_prompt(surveyPurpose, startupAnalysis,
                       join(<<"\n">>, guardrail_sections))

\* app.py build_guardrail_based_prompt.
build_guardrail_based_prompt(surveyPurpose, startupAnalysis) ==
  LET guardrails == get_guardrails_for_stage(startupAnalysis.stage)
      guardrail_sections == guardrail_sections_of(guardrails)
      guardrail_content == join(<<"\n">>, guardrail_sections)
  IN  guardrail_prompt(surveyPurpose, startupAnalysis, guardrail_content)

(***************************************************************************)
(* JSON: the lexemes of the generator's text and json.loads.               *)
(***************************************************************************)
\* The question objects the generator writes, by lexeme: each lexeme is the
\* text of one JSON object, here with the dict json.loads makes of it.
Objects ==
  "{bp1}" :> [text |-> "How severe is burning problem 1 for you? (1-5)",
              bucket |-> "burning_problem_1", type |-> "scale",
              burning_problem_reference |-> "1"] @@
  "{bp2}" :> [text |-> "How often do you meet burning problem 2? (1-5)",
              bucket |-> "burning_problem_2", type |-> "scale",
              burning_problem_reference |-> "2"] @@
  "{bp3}" :> [text |-> "What have you tried against burning problem 3?",
              bucket |-> "burning_problem_3", type |-> "text",
              burning_problem_reference |-> "3"] @@
  "{stage}" :> [text |-> "What would you need to see before adopting this?",
                bucket |-> "stage_validation", type |-> "text",
                burning_problem_reference |-> "null"] @@
  "{guardrail}" :> [text |-> "Would you pay for this? [Yes] [No] [Maybe]",
                    bucket |-> "guardrail:WILLINGNESS TO PAY", type |-> "mcq",
                    burning_problem_reference |-> "null"] @@
  "{notext}" :> [text |-> "", bucket |-> "misc", type |-> "ranking",
                 burning_problem_reference |-> "null"]

\* Lexemes of JSON numbers.
Numbers == {"7"}

\* The Python value of a lexeme that is a JSON value by itself.
json_value(lexeme) ==
  IF lexeme \in DOMAIN Objects
  THEN [t |-> "dict", v |-> Objects[lexeme]]
  ELSE [t |-> "int", v |-> lexeme]

ValueLexemes == DOMAIN Objects \cup Numbers

\* Whether lexemes is value (, value)* .
RECURSIVE is_elements(_)
is_elements(lexemes) ==
  /\ lexemes # <<>>
  /\ lexemes[1] \in ValueLexemes
  /\ \/ Len(lexemes) = 1
     \/ /\ Len(lexemes) >= 3
        /\ lexemes[2] = ","
        /\ is_elements(SubSeq(lexemes, 3, Len(lexemes)))

\* json.loads(text): whitespace between lexemes is skipped; a value by itself,
\* or an array of values.  Anything else raises JSONDecodeError.
json_loads(text) ==
  LET lexemes == SelectSeq(text, LAMBDA c : c \notin Whitespace)
      n == Len(lexemes)
      inner == SubSeq(lexemes, 2, n - 1)
  IN  IF n = 1 /\ lexemes[1] \in ValueLexemes
      THEN [ok |-> TRUE, value |-> json_value(lexemes[1])]
      ELSE IF n >= 2 /\ lexemes[1] = "[" /\ lexemes[n] = "]"
                /\ (inner = <<>> \/ is_elements(inner))
      THEN [ok |-> TRUE,
            value |-> [t |-> "list",
                       v |-> [i \in 1..(Len(inner) + 1) \div 2 |->
                                json_value(inner[2 * i - 1])]]]
      ELSE [ok |-> FALSE, value |-> [t |-> "error", v |-> "Expecting value"]]

(***************************************************************************)
(* The texts the generator answers with.                                   *)
(***************************************************************************)
\* The text of a JSON array of the given element lexemes.
ArrayText(items) ==
  <<"[">> \o join(<<",">>, [i \in 1..Len(items) |-> <<items[i]>>]) \o <<"]">>

\* n elements: the first questions reference the burning problems in refs,
\* the others are filled with the lexeme rest.
Items(n, refs, rest) ==
  [i \in 1..n |-> IF i <= Len(refs) THEN refs[i] ELSE rest]

ThreeRefs == <<"{bp1}", "{bp2}", "{bp3}">>

GeneratorTexts ==
  \* arrays of question objects of every length from one short of the
  \* expected one
  {ArrayText(Items(n, ThreeRefs, "{stage}")) :
     n \in (ExpectedItems - 1)..MaxItems}
  \cup
  { \* ten items of the 3/7 split, with line breaks around the array
    <<"\n">> \o ArrayText(Items(ExpectedItems, ThreeRefs, "{guardrail}"))
      \o <<"\n">>,
    \* ten items, only two of them referencing a burning problem
    ArrayText(Items(ExpectedItems, <<"{bp1}", "{bp2}">>, "{stage}")),
    \* ten items, three references but none to problem 3
    ArrayText(Items(ExpectedItems, <<"{bp1}", "{bp1}", "{bp2}">>, "{stage}")),
    \* ten items, seven of them with no text, an unknown type and bucket
    ArrayText(Items(ExpectedItems, ThreeRefs, "{notext}")),
    \* valid JSON that is no array
    <<"7">>,
    \* no JSON, with white space around it
    <<" ", "Here are your questions:", "\n">>,
    \* a response with no content block
    <<>> }

(***************************************************************************)
(* Requests.                                                               *)
(***************************************************************************)
Titles == {"Vapi"}
Descriptions == {"A developer-first platform for voice AI agents"}
Purposes == {"Understand need"}

\* The text of the i-th burning problem a caller writes.
ProblemText(i) == "burning problem " \o ToString(i)

\* The burningProblems lists: i-th problem at place i for every length, and
\* one list of three in another order.  List[str] admits every length.
ProblemLists ==
  {[i \in 1..n |-> ProblemText(i)] : n \in 2..MaxProblems}
    \cup {<<ProblemText(2), ProblemText(1), ProblemText(3)>>}

\* StartupAnalysis objects that pass pydantic validation against a stage Literal.
Analyses(stages) ==
  {[title |-> t, description |-> d, stage |-> s, burningProblems |-> b] :
     t \in Titles, d \in Descriptions, s \in stages, b \in ProblemLists}

Reqs == 1..NumReqs

\* Every request carries a study id of its own.
StudyId(r) == "study_" \o ToString(r)

\* Stages of the requests sent to the endpoint.
RequestStages == {"IDEATION & PLANNING", "GROWTH & OPTIMIZATION"}

\* The SurveyRequest bodies request r may carry: those FastAPI hands to
\* generate_survey, validated against SurveyRequest (main.py lines 20-29).
Payloads(r) ==
  {[studyId |-> StudyId(r), surveyPurpose |-> p, startupAnalysis |-> a] :
     p \in Purposes,
     a \in {b \in Analyses(RequestStages) :
              b.burningProblems[1] = ProblemText(1)}}

(***************************************************************************)
(* main.py: the endpoint.                                                  *)
(***************************************************************************)
NoResponse == [status_code |-> 0, content |-> [pending |-> TRUE]]

\* JSONResponse(content=..., status_code=...), 200 when not given.
JSONResponse(content, status_code) ==
  [status_code |-> status_code, content |-> content]

\* The guard as "fewer than 3".
too_few_problems(startupAnalysis) ==
  Len(startupAnalysis.burningProblems) < RequiredProblems

\* main.py line 178: the guard of the 400 answer.
wrong_problem_count(startupAnalysis) ==
  Len(startupAnalysis.burningProblems) # RequiredProblems

\* The test without the length.
is_list(parsed) == parsed.t = "list"

\* main.py line 195: isinstance(parsed, list) and len(parsed) == 10.
is_list_of_ten(parsed) ==
  parsed.t = "list" /\ Len(parsed.v) = ExpectedItems

\* main.py lines 176-189: the handler up to the prompt.  A wrong count is
\* answered at once; otherwise the prompt is built.
Begin(r) ==
  /\ pc[r] = "idle"
  /\ \E p \in Payloads(r) :
       /\ payload' = [payload EXCEPT ![r] = p]
       /\ IF wrong_problem_count(p.startupAnalysis)
          THEN /\ response' = [response EXCEPT ![r] =
                    JSONResponse(
                      [error |-> <<"Exactly 3 burning problems are required">>,
                       received |-> Len(p.startupAnalysis.burningProblems),
                       studyId |-> p.studyId],
                      400)]
               /\ pc' = [pc EXCEPT ![r] = "done"]
               /\ UNCHANGED prompt
          ELSE /\ prompt' = [prompt EXCEPT ![r] =
                    build_stage_specific_survey_prompt(p.surveyPurpose,
                                                       p.startupAnalysis)]
               /\ pc' = [pc EXCEPT ![r] = "prompted"]
               /\ UNCHANGED response
  /\ UNCHANGED <<sdk_accepts_format, generated, raw_output, creates,
                 invoked>>
  /\ UNCHANGED <<tables, call_log, form>>

\* main.py line 191 and query_claude (lines 150-170).  messages.create is
\* called with format="json"; an SDK that does not take the argument raises
\* TypeError while binding the arguments, before anything is sent, and the
\* call is made again without it.  The call that goes through reaches the
\* generator once and answers with a text (no content block: "") or raises
\* an API error, which nothing in the handler catches.
Query(r) ==
  /\ pc[r] = "prompted"
  /\ creates' = [creates EXCEPT ![r] =
                   @ + (IF sdk_accepts_format THEN 1 ELSE 2)]
  /\ invoked' = [invoked EXCEPT ![r] = @ + 1]
  /\ \/ \E text \in GeneratorTexts :
          /\ generated' = [generated EXCEPT ![r] = text]
          /\ raw_output' = [raw_output EXCEPT ![r] = text]
          /\ pc' = [pc EXCEPT ![r] = "generated"]
     \/ /\ pc' = [pc EXCEPT ![r] = "raised"]
        /\ UNCHANGED <<generated, raw_output>>
  /\ UNCHANGED <<sdk_accepts_format, payload, prompt, response>>
  /\ UNCHANGED <<tables, call_log, form>>

\* main.py lines 193-217: the response built from the request and the text
\* query_claude returned.
decoded_response(request, raw) ==
  LET loaded == json_loads(raw)
      parsed == loaded.value
      a == request.startupAnalysis
  IN  IF ~loaded.ok
      THEN JSONResponse(
             [error |-> <<"Could not parse JSON: ", parsed.v>>,
              raw_output |-> raw,
              studyId |-> request.studyId],
             200)
      ELSE IF is_list_of_ten(parsed)
      THEN JSONResponse(
             [questions |-> parsed.v,
              stage |-> a.stage,
              burningProblems |-> a.burningProblems,
              studyId |-> request.studyId,
              metadata |->
                [stage_focus |-> get_stage_focus(a.stage).primary_focus,
                 validation_goal |->
                   get_stage_focus(a.stage).validation_goal]],
             200)
      ELSE JSONResponse(
             [error |-> <<"Output is not a valid list of 10 items">>,
              raw |-> raw,
              studyId |-> request.studyId],
             200)

\* A handler that asks the generator again when the text does not decode to
\* ten items, instead of answering.
DecodeWithRetry(r) ==
  /\ pc[r] = "generated"
  /\ IF /\ json_loads(raw_output[r]).ok
        /\ is_list_of_ten(json_loads(raw_output[r]).value)
     THEN /\ response' = [response EXCEPT ![r] =
                 decoded_response(payload[r], raw_output[r])]
          /\ pc' = [pc EXCEPT ![r] = "done"]
     ELSE /\ pc' = [pc EXCEPT ![r] = "prompted"]
          /\ UNCHANGED response
  /\ UNCHANGED <<sdk_accepts_format, payload, prompt, generated, raw_output,
                 creates, invoked>>
  /\ UNCHANGED <<tables, call_log, form>>

\* A handler that keeps the generator's text in one place shared by all
\* requests: the text decoded is that of whichever request wrote it last.
DecodeSharedOutput(r) ==
  /\ pc[r] = "generated"
  /\ \E q \in Reqs :
       /\ pc[q] \in {"generated", "done"}
       /\ response' = [response EXCEPT ![r] =
            decoded_response(payload[r], raw_output[q])]
  /\ pc' = [pc EXCEPT ![r] = "done"]
  /\ UNCHANGED <<sdk_accepts_format, payload, prompt, generated, raw_output,
                 creates, invoked>>
  /\ UNCHANGED <<tables, call_log, form>>

\* main.py lines 193-217: decode and answer.
Decode(r) ==
  /\ pc[r] = "generated"
  /\ response' = [response EXCEPT ![r] =
       decoded_response(payload[r], raw_output[r])]
  /\ pc' = [pc EXCEPT ![r] = "done"]
  /\ UNCHANGED <<sdk_accepts_format, payload, prompt, generated, raw_output,
                 creates, invoked>>
  /\ UNCHANGED <<tables, call_log, form>>

(***************************************************************************)
(* app.py: the form app.  One script run per submission of survey_form.    *)
(***************************************************************************)
\* app.py line 355: the options of the stage selectbox.
StageOptions == {"IDEATION & PLANNING", "PROTOTYPE DEVELOPMENT"}

\* The values of the form's fields at a submission (lines 351-360); a text
\* field may be left empty.
FormInputs ==
  {[study_id |-> "sample_study_vapi", purpose |-> p, title |-> t,
    description |-> d, stage |-> s,
    burning_1 |-> ProblemText(1), burning_2 |-> ProblemText(2),
    burning_3 |-> b3] :
     p \in Purposes, t \in Titles, d \in Descriptions, s \in StageOptions,
     b3 \in {ProblemText(3), ""}}

\* str.upper() of the question types the summary writes.
upper(q_type) ==
  CASE q_type = "scale" -> "SCALE"
    [] q_type = "mcq" -> "MCQ"
    [] q_type = "yes_no" -> "YES_NO"
    [] q_type = "text" -> "TEXT"
    [] q_type = "ranking" -> "RANKING"
    [] OTHER -> "UNKNOWN"

\* dict.get(key, default)
dict_get(d, key, default) == IF key \in DOMAIN d THEN d[key] ELSE default

\* Truth value of q.get("burning_problem_reference"): None and 0 are false.
has_reference(q) ==
  dict_get(q, "burning_problem_reference", "null") \notin {"null", "0"}

\* q.get("bucket", "").startswith("guardrail:")
is_guardrail_bucket(q) ==
  dict_get(q, "bucket", "") \in
    {"guardrail:" \o IDEATION_GUARDRAILS_INIT[i].name : i \in 1..8}
      \cup {"guardrail:" \o PROTOTYPE_GUARDRAILS_INIT[i].name : i \in 1..8}

\* Whether the loop of lines 386-393 runs through: parsed must be iterable
\* and every q must have a get method, which of the values here only a dict
\* has.  Iterating a dict yields its keys, which are strings.
loop_completes(parsed) ==
  \/ parsed.t = "list" /\ \A i \in 1..Len(parsed.v) : parsed.v[i].t = "dict"
  \/ parsed.t = "dict" /\ DOMAIN parsed.v = {}

\* question_types after the loop over qs: <<type, count>> in the order the
\* types were first met.
RECURSIVE count_types(_, _)
count_types(qs, seen) ==
  IF qs = <<>> THEN <<>>
  ELSE LET q_type == dict_get(qs[1].v, "type", "unknown")
       IN  IF q_type \in seen THEN count_types(Tail(qs), seen)
           ELSE << <<q_type,
                     Cardinality({i \in 1..Len(qs) :
                        dict_get(qs[i].v, "type", "unknown") = q_type})>> >>
                \o count_types(Tail(qs), seen \cup {q_type})

\* Lines 395-408: what the summary shows after the loop over a list of dicts
\* (over an empty dict the same, with nothing counted).
summary(parsed) ==
  LET qs == IF parsed.t = "list" THEN parsed.v ELSE <<>>
      with_ref == {i \in 1..Len(qs) : has_reference(qs[i].v)}
      guardrail == {i \in 1..Len(qs) :
                      i \notin with_ref /\ is_guardrail_bucket(qs[i].v)}
      types == count_types(qs, {})
  IN  <<[el |-> "metric", label |-> "Total Questions", value |-> Len(qs)],
        [el |-> "metric", label |-> "Burning Problem Questions",
         value |-> Cardinality(with_ref)],
        [el |-> "metric", label |-> "Guardrail Questions",
         value |-> Cardinality(guardrail)],
        [el |-> "subheader", value |-> <<"Question Type Distribution">>]>>
      \o [i \in 1..Len(types) |->
            [el |-> "write",
             value |-> <<"**", upper(types[i][1]), "**: ",
                         ToString(types[i][2]), " questions">>]]
      \o <<[el |-> "subheader", value |-> <<"Generated Questions">>],
           [el |-> "json", value |-> parsed]>>

\* app.py query_claude line 339: the text of the response, stripped.
returned_text(text) == strip(text)

\* Lines 362-364: the form is submitted and the script runs; what an earlier
\* run showed is gone.
Submit ==
  /\ form_pc \in {"idle", "done"}
  /\ \E f \in FormInputs : form_input' = f
  /\ form_pc' = "submitted"
  /\ form_prompt' = <<>>
  /\ form_generated' = <<>>
  /\ form_raw_output' = <<>>
  /\ form_ui' = <<>>
  /\ form_creates' = 0
  /\ UNCHANGED <<tables, call_log, http>>

\* Lines 365-374 and 414-415: StartupAnalysis validates the stage against its
\* Literal; the prompt is built from the validated object.  What this does
\* to the form app's own state.
validate_and_build ==
  /\ form_pc = "submitted"
  /\ IF form_input.stage \in AppStages
     THEN /\ form_prompt' =
               build_guardrail_based_prompt(
                 form_input.purpose,
                 [title |-> form_input.title,
                  description |-> form_input.description,
                  stage |-> form_input.stage,
                  burningProblems |-> <<form_input.burning_1,
                                        form_input.burning_2,
                                        form_input.burning_3>>])
          /\ form_pc' = "prompted"
          /\ UNCHANGED form_ui
     ELSE /\ form_ui' = Append(form_ui,
               [el |-> "error", value |-> <<"Input Validation Failed: ">>])
          /\ form_pc' = "done"
          /\ UNCHANGED form_prompt
  /\ UNCHANGED <<form_input, form_generated, form_raw_output, form_creates>>
  /\ UNCHANGED <<call_log, http>>

\* A builder that takes the categories out of the stage's table as it
\* renders them (popitem instead of items).
BuildConsumingGuardrails ==
  /\ validate_and_build
  /\ IDEATION_GUARDRAILS' =
       IF form_input.stage = "IDEATION & PLANNING" THEN <<>>
       ELSE IDEATION_GUARDRAILS
  /\ PROTOTYPE_GUARDRAILS' =
       IF form_input.stage = "PROTOTYPE DEVELOPMENT" THEN <<>>
       ELSE PROTOTYPE_GUARDRAILS

\* Lines 365-374 and 414-415, whole: get_guardrails_for_stage and
\* build_guardrail_based_prompt only read the tables (lines 248-273).
Build ==
  /\ validate_and_build
  /\ UNCHANGED tables

\* A run that calls query_claude before input_obj has been validated and
\* the prompt built.
reaches_query_unvalidated == form_pc \in {"submitted", "prompted"}

\* Line 375 is reached by the run that has passed lines 366-374: the input
\* validated and the prompt built.
reaches_query == form_pc = "prompted"

\* Line 375 and query_claude (lines 331-342): one messages.create; its text
\* is returned stripped, "" when there is no content block; any exception is
\* shown and "" returned.
FormQuery ==
  /\ reaches_query
  /\ form_creates' = form_creates + 1
  /\ \/ \E text \in GeneratorTexts :
          /\ form_generated' = text
          /\ form_raw_output' = returned_text(text)
          /\ UNCHANGED form_ui
     \/ /\ form_generated' = <<>>
        /\ form_raw_output' = <<>>
        /\ form_ui' = Append(form_ui,
             [el |-> "error", value |-> <<"Claude API Error: ">>])
  /\ form_pc' = "generated"
  /\ UNCHANGED <<form_input, form_prompt>>
  /\ UNCHANGED <<tables, call_log, http>>

\* Lines 377-412: decode and show.  st.success comes right after json.loads;
\* an exception of the loop lands in the same except clause as one of
\* json.loads.
FormDecode ==
  /\ form_pc = "generated"
  /\ LET loaded == json_loads(form_raw_output)
         parsed == loaded.value
         success == [el |-> "success",
                     value |-> <<"Enhanced survey questions generated!">>]
         failure ==
           <<[el |-> "error",
              value |-> <<"Failed to parse output as JSON. Here's the raw output:">>],
             [el |-> "code", value |-> form_raw_output]>>
     IN  form_ui' =
           IF ~loaded.ok THEN form_ui \o failure
           ELSE IF loop_completes(parsed)
           THEN form_ui \o <<success>> \o summary(parsed)
           ELSE form_ui \o <<success>> \o failure
  /\ form_pc' = "done"
  /\ UNCHANGED <<form_input, form_prompt, form_generated, form_raw_output,
                 form_creates>>
  /\ UNCHANGED <<tables, call_log, http>>

(***************************************************************************)
(* The lookups and prompt builders as a library: any caller, any order.    *)
(***************************************************************************)
\* Stage strings a caller passes to the lookups, which take a plain str.
StageArgs ==
  {"IDEATION & PLANNING", "PROTOTYPE DEVELOPMENT", "GROWTH & OPTIMIZATION",
   "SEED FUNDING"}

\* Stages of the analyses the prompt builders are called with.
RenderStagesMain ==
  {"IDEATION & PLANNING", "PROTOTYPE DEVELOPMENT", "GROWTH & OPTIMIZATION"}

\* A call that returns ret; none of the four functions has a raise statement.
Record(fn, args, ret) ==
  /\ BagCardinality(call_log) < MaxCalls
  /\ call_log' = call_log (+) SetToBag({[fn |-> fn, args |-> args,
                                         raised |-> None, ret |-> ret]})

CallGetStageFocus ==
  /\ \E stage \in StageArgs :
       Record("get_stage_focus", <<stage>>, get_stage_focus(stage))
  /\ UNCHANGED <<tables, http, form>>

CallGetGuardrailsForStage ==
  /\ \E stage \in StageArgs :
       Record("get_guardrails_for_stage", <<stage>>,
              get_guardrails_for_stage(stage))
  /\ UNCHANGED <<tables, http, form>>

CallBuildStagePrompt ==
  /\ \E p \in Purposes, a \in Analyses(RenderStagesMain) :
       Record("build_stage_specific_survey_prompt", <<p, a>>,
              build_stage_specific_survey_prompt(p, a))
  /\ UNCHANGED <<tables, http, form>>

CallBuildGuardrailPrompt ==
  /\ \E p \in Purposes, a \in Analyses(AppStages) :
       Record("build_guardrail_based_prompt", <<p, a>>,
              build_guardrail_based_prompt(p, a))
  /\ UNCHANGED <<tables, http, form>>

Init ==
  /\ IDEATION_GUARDRAILS = IDEATION_GUARDRAILS_INIT
  /\ PROTOTYPE_GUARDRAILS = PROTOTYPE_GUARDRAILS_INIT
  /\ call_log = EmptyBag
  /\ sdk_accepts_format \in BOOLEAN
  /\ pc = [r \in Reqs |-> "idle"]
  /\ payload = [r \in Reqs |-> CHOOSE p \in Payloads(r) : TRUE]
  /\ prompt = [r \in Reqs |-> <<>>]
  /\ generated = [r \in Reqs |-> <<>>]
  /\ raw_output = [r \in Reqs |-> <<>>]
  /\ response = [r \in Reqs |-> NoResponse]
  /\ creates = [r \in Reqs |-> 0]
  /\ invoked = [r \in Reqs |-> 0]
  /\ form_pc = "idle"
  /\ form_input = CHOOSE f \in FormInputs : TRUE
  /\ form_prompt = <<>>
  /\ form_generated = <<>>
  /\ form_raw_output = <<>>
  /\ form_ui = <<>>
  /\ form_creates = 0

\* The endpoint: requests handled side by side.
Next == \E r \in Reqs : Begin(r) \/ Query(r) \/ Decode(r)

CoreNext ==
  \/ CallGetStageFocus
  \/ CallGetGuardrailsForStage
  \/ CallBuildStagePrompt
  \/ CallBuildGuardrailPrompt

\* The form app: one session, one script run after the other.
FormNext == Submit \/ Build \/ FormQuery \/ FormDecode

vars == <<tables, call_log, http, form>>

Spec == Init /\ [][Next]_vars

SpecForm == Init /\ [][FormNext]_vars

\* The library alone.
SpecCore == Init /\ [][CoreNext]_vars

(***************************************************************************)
(* Properties of the endpoint and the form app.                            *)
(***************************************************************************)
\* The value lexemes of a text, in order.
ValuesIn(text) == SelectSeq(text, LAMBDA c : c \in ValueLexemes)

\* Whether text is a JSON array (whitespace around it allowed).
IsArrayText(text) == strip(text) = ArrayText(ValuesIn(text))

\* Whether text is a JSON array of exactly 10 question objects.
IsTenQuestions(text) ==
  /\ IsArrayText(text)
  /\ Len(ValuesIn(text)) = ExpectedItems
  /\ \A i \in 1..ExpectedItems : ValuesIn(text)[i] \in DOMAIN Objects

\* The question dicts a text of question objects stands for.
QuestionsOf(text) ==
  [i \in 1..Len(ValuesIn(text)) |->
     [t |-> "dict", v |-> Objects[ValuesIn(text)[i]]]]

Answered(r) == pc[r] = "done"
IsSuccess(r) == Answered(r) /\ "questions" \in DOMAIN response[r].content

\* C1: a request whose burningProblems does not have exactly 3 entries is
\* answered 400 with an error, the received count and the request's studyId,
\* with no prompt built and no call of the text generator.
C1_WrongCountRejected ==
  \A r \in Reqs :
    (pc[r] # "idle"
       /\ Len(payload[r].startupAnalysis.burningProblems) # RequiredProblems)
    => /\ Answered(r)
       /\ response[r].status_code = 400
       /\ DOMAIN response[r].content = {"error", "received", "studyId"}
       /\ response[r].content.received =
            Len(payload[r].startupAnalysis.burningProblems)
       /\ response[r].content.studyId = payload[r].studyId
       /\ prompt[r] = <<>>
       /\ creates[r] = 0
       /\ generated[r] = <<>>

\* C1's case: a request with 4 burning problems and one with 2, both answered.
C1_Witness ==
  \E r, q \in Reqs :
    /\ Answered(r) /\ Answered(q)
    /\ Len(payload[r].startupAnalysis.burningProblems) = RequiredProblems + 1
    /\ Len(payload[q].startupAnalysis.burningProblems) = RequiredProblems - 1
    /\ response[r].status_code = 400

\* Whether decoding text fails in the sense of C2: it is no JSON, or no list
\* of 10 items.
DecodeFails(text) ==
  ~(IsArrayText(text) /\ Len(ValuesIn(text)) = ExpectedItems)

\* C2 (form app): whenever decoding the generator's text fails, the code block
\* shows the text exactly as the generator produced it.
C2_FormShowsRawUnmodified ==
  (form_pc = "done" /\ form_creates > 0 /\ DecodeFails(form_generated))
    => \E i \in 1..Len(form_ui) :
         form_ui[i].el = "code" /\ form_ui[i].value = form_generated

\* C3: a valid request whose generator output is a JSON array of exactly 10
\* question objects is answered 200 with no error field, the parsed questions
\* in order, the request's stage, burningProblems and studyId, and the
\* stage_focus and validation_goal of the strategy registered for the stage.
C3_SuccessResponse ==
  \A r \in Reqs :
    (Answered(r)
       /\ Len(payload[r].startupAnalysis.burningProblems) = RequiredProblems
       /\ IsTenQuestions(generated[r]))
    => response[r] =
         [status_code |-> 200,
          content |->
            [questions |-> QuestionsOf(generated[r]),
             stage |-> payload[r].startupAnalysis.stage,
             burningProblems |-> payload[r].startupAnalysis.burningProblems,
             studyId |-> payload[r].studyId,
             metadata |->
               [stage_focus |->
                  stage_strategies[payload[r].startupAnalysis.stage].primary_focus,
                validation_goal |->
                  stage_strategies[payload[r].startupAnalysis.stage].validation_goal]]]

\* C3's case: a growth-stage request answered from ten question objects
\* written with line breaks around the array.
C3_Witness ==
  \E r \in Reqs :
    /\ Answered(r)
    /\ payload[r].startupAnalysis.stage = "GROWTH & OPTIMIZATION"
    /\ IsTenQuestions(generated[r])
    /\ generated[r][1] = "\n"
    /\ IsSuccess(r)

\* Whether text is a JSON array of another length than 10.
IsWrongCount(text) ==
  IsArrayText(text) /\ Len(ValuesIn(text)) # ExpectedItems

\* Names a response could give the observed element count.
CountFields == {"count", "received", "observed", "actual", "length"}

References(qs) ==
  LET carrying == SelectSeq(qs, LAMBDA q :
                    /\ q.t = "dict"
                    /\ "burning_problem_reference" \in DOMAIN q.v
                    /\ q.v.burning_problem_reference # "null")
  IN  [i \in 1..Len(carrying) |-> carrying[i].v.burning_problem_reference]

\* C5: an array is returned as a survey only if exactly 3 of its elements
\* carry a burning_problem_reference and each of 1, 2 and 3 appears.
C5_DistributionChecked ==
  \A r \in Reqs :
    IsSuccess(r) =>
      LET refs == References(response[r].content.questions)
      IN  /\ Len(refs) = 3
          /\ {refs[i] : i \in 1..Len(refs)} = {"1", "2", "3"}

\* The question types and buckets main.py's prompt allows (lines 137-138).
AllowedTypes == {"scale", "text"}
AllowedBuckets ==
  {"burning_problem_1", "burning_problem_2", "burning_problem_3",
   "stage_validation", "user_behavior", "future_priorities"}

\* C6: an array is returned as a survey only if each of its elements has a
\* non-empty text, an allowed type and a bucket of an expected form.
C6_SchemaChecked ==
  \A r \in Reqs :
    IsSuccess(r) =>
      \A i \in 1..Len(response[r].content.questions) :
        LET q == response[r].content.questions[i]
        IN  /\ q.t = "dict"
            /\ {"text", "type", "bucket"} \subseteq DOMAIN q.v
            /\ q.v.text # ""
            /\ q.v.type \in AllowedTypes
            /\ q.v.bucket \in AllowedBuckets

(***************************************************************************)
(* Properties of the lookups and prompt builders.                          *)
(***************************************************************************)
Calls == BagToSet(call_log)
Lookups == {"get_stage_focus", "get_guardrails_for_stage"}
Builders == {"build_stage_specific_survey_prompt", "build_guardrail_based_prompt"}

\* The stages each function's module enumerates.
StagesOf(fn) ==
  IF fn \in {"get_stage_focus", "build_stage_specific_survey_prompt"}
  THEN MainStages ELSE AppStages

\* The guardrail categories registered for a stage: app.py's two tables;
\* main.py registers none.
RegisteredGuardrails(fn, stage) ==
  IF fn # "build_guardrail_based_prompt" THEN <<>>
  ELSE IF stage = "IDEATION & PLANNING" THEN IDEATION_GUARDRAILS_INIT
  ELSE IF stage = "PROTOTYPE DEVELOPMENT" THEN PROTOTYPE_GUARDRAILS_INIT
  ELSE <<>>

\* The least index >= from at which pat occurs in text chunk by chunk, or 0.
FindFrom(text, pat, from) ==
  LET hits == {i \in from..(Len(text) - Len(pat) + 1) :
                 SubSeq(text, i, i + Len(pat) - 1) = pat}
  IN  IF hits = {} THEN 0
      ELSE CHOOSE i \in hits : \A j \in hits : i <= j

\* Whether the texts of pats occur in text one after the other, in order.
RECURSIVE ContainsInOrder(_, _, _)
ContainsInOrder(text, pats, from) ==
  IF pats = <<>> THEN TRUE
  ELSE LET at == FindFrom(text, pats[1], from)
       IN  /\ at # 0
           /\ ContainsInOrder(text, Tail(pats), at + Len(pats[1]))

ValidProfile(c) ==
  /\ Len(c.args[2].burningProblems) = RequiredProblems
  /\ c.args[2].stage \in StagesOf(c.fn)

\* C7: a lookup of a stage outside the closed enumeration fails with
\* UnknownStage (and so yields neither an empty catalog nor another stage's
\* entry).
C7_UnknownStageFails ==
  \A c \in Calls :
    (c.fn \in Lookups /\ c.args[1] \notin StagesOf(c.fn))
      => c.raised = "UnknownStage"

\* C8: rendering a profile whose burningProblems does not have exactly 3
\* entries, or whose stage is not resolvable, fails with InvalidRequest and
\* produces no prompt.
C8_InvalidRequestFails ==
  \A c \in Calls :
    (c.fn \in Builders /\ ~ValidProfile(c)) => c.raised = "InvalidRequest"

\* C9: the prompt rendered for a valid profile contains, in this order, the
\* title, the description, the stage label, the survey purpose, the three
\* burning problems numbered 1 to 3 in input order, and the name and
\* description of every guardrail category registered for the stage.
C9_PromptEmbedsInOrder ==
  \A c \in Calls :
    (c.fn \in Builders /\ ValidProfile(c)) =>
      LET a == c.args[2]
          g == RegisteredGuardrails(c.fn, a.stage)
      IN  /\ c.raised = None
          /\ ContainsInOrder(c.ret,
               <<  <<a.title>>, <<a.description>>, <<a.stage>>, <<c.args[1]>>,
                   <<"1", ". ", a.burningProblems[1]>>,
                   <<"2", ". ", a.burningProblems[2]>>,
                   <<"3", ". ", a.burningProblems[3]>> >>
               \o [i \in 1..Len(g) |-> <<g[i].name, ": ", g[i].description>>],
               1)

\* C9's case: both builders have rendered a valid profile, one of them with
\* its problems in another order than their numbers, and the guardrail
\* builder for a stage with eight registered categories.
C9_Witness ==
  /\ \E c \in Calls :
       /\ c.fn = "build_stage_specific_survey_prompt"
       /\ ValidProfile(c)
       /\ c.args[2].burningProblems[1] = ProblemText(2)
  /\ \E c \in Calls :
       /\ c.fn = "build_guardrail_based_prompt"
       /\ ValidProfile(c)
       /\ Len(RegisteredGuardrails(c.fn, c.args[2].stage)) = 8
       /\ FindFrom(c.ret, <<"WILLINGNESS TO PAY">>, 1) # 0

DocumentedShape(resp) ==
  \/ /\ resp.status_code = 400
     /\ DOMAIN resp.content = {"error", "received", "studyId"}
  \/ /\ resp.status_code = 200
     /\ DOMAIN resp.content =
          {"questions", "stage", "burningProblems", "studyId", "metadata"}
  \/ /\ resp.status_code = 200
     /\ \/ DOMAIN resp.content = {"error", "raw", "studyId"}
        \/ DOMAIN resp.content = {"error", "raw_output", "studyId"}

\* C12: every request whose handling has ended, by a return or by an
\* exception of the generation step, has a response of one of the three
\* shapes.
C12_AlwaysDocumentedResponse ==
  \A r \in Reqs :
    pc[r] \in {"done", "raised"} => DocumentedShape(response[r])

\* Exactly 3 burning problems, each a non-empty string.
ThreeNonEmpty(problems) ==
  /\ Len(problems) = RequiredProblems
  /\ \A i \in 1..Len(problems) : problems[i] # ""

\* The profile the form app validates and renders (lines 366-371).
FormProfileProblems ==
  <<form_input.burning_1, form_input.burning_2, form_input.burning_3>>

\* C13: every profile whose prompt has been built and sent to the generator,
\* by the endpoint or by the form app, has exactly 3 burning problems, each
\* a non-empty string.
C13_SentProfilesHaveThreeNonEmpty ==
  /\ \A r \in Reqs :
       invoked[r] > 0 =>
         ThreeNonEmpty(payload[r].startupAnalysis.burningProblems)
  /\ form_creates > 0 => ThreeNonEmpty(FormProfileProblems)

\* C14: with the steps of the requests interleaved in any order, the prompt
\* of a request is the one rendered from its own payload, the text its
\* handler holds is the one generated for it, and its response carries its
\* own studyId, stage, burningProblems and received count, and the
\* questions or the raw text of its own generator output.
C14_ResponsesIsolated ==
  \A r \in Reqs :
    LET a == payload[r].startupAnalysis
        c == response[r].content
    IN  /\ pc[r] \in {"prompted", "generated", "raised"} =>
             /\ payload[r].studyId = StudyId(r)
             /\ prompt[r] =
                  build_stage_specific_survey_prompt(payload[r].surveyPurpose,
                                                     a)
             /\ response[r] = NoResponse
        /\ pc[r] = "generated" => raw_output[r] = generated[r]
        /\ Answered(r) =>
             /\ payload[r].studyId = StudyId(r)
             /\ c.studyId = StudyId(r)
             /\ "received" \in DOMAIN c =>
                  c.received = Len(a.burningProblems)
             /\ "questions" \in DOMAIN c =>
                  /\ c.stage = a.stage
                  /\ c.burningProblems = a.burningProblems
                  /\ c.questions = json_loads(generated[r]).value.v
                  /\ c.metadata.stage_focus =
                       get_stage_focus(a.stage).primary_focus
             /\ "raw" \in DOMAIN c => c.raw = generated[r]
             /\ "raw_output" \in DOMAIN c => c.raw_output = generated[r]
             /\ invoked[r] > 0 =>
                  \/ "questions" \in DOMAIN c
                  \/ "raw" \in DOMAIN c
                  \/ "raw_output" \in DOMAIN c

\* C14's case: two requests of different stages were in flight together and
\* got different generator outputs; one has been answered with its
\* questions while the other still holds its own text, not yet decoded.
C14_Witness ==
  \E r, q \in Reqs :
    /\ r # q
    /\ IsSuccess(r)
    /\ pc[q] = "generated"
    /\ generated[q] # generated[r]
    /\ payload[q].startupAnalysis.stage # payload[r].startupAnalysis.stage
    /\ response[r].content.stage = payload[r].startupAnalysis.stage
    /\ response[r].content.studyId # payload[q].studyId

\* C15: whatever has been looked up, rendered, generated and decoded, the
\* two guardrail tables hold their initial categories, descriptions and
\* example questions, a lookup of a stage yields those, the prompt the form
\* app has built is the one rendered from them, and the strategy of every
\* stage (unknown ones: the IDEATION & PLANNING strategy) is the one of the
\* strategy table.
C15_TablesUnchanged ==
  /\ IDEATION_GUARDRAILS = IDEATION_GUARDRAILS_INIT
  /\ PROTOTYPE_GUARDRAILS = PROTOTYPE_GUARDRAILS_INIT
  /\ get_guardrails_for_stage("IDEATION & PLANNING") =
       IDEATION_GUARDRAILS_INIT
  /\ get_guardrails_for_stage("PROTOTYPE DEVELOPMENT") =
       PROTOTYPE_GUARDRAILS_INIT
  /\ \A stage \in StageArgs :
       get_stage_focus(stage) =
         IF stage \in MainStages THEN stage_strategies[stage]
         ELSE stage_strategies["IDEATION & PLANNING"]
  /\ form_prompt # <<>> =>
       form_prompt =
         guardrail_prompt(
           form_input.purpose,
           [title |-> form_input.title,
            description |-> form_input.description,
            stage |-> form_input.stage,
            burningProblems |-> FormProfileProblems],
           join(<<"\n">>,
                guardrail_sections_of(
                  IF form_input.stage = "IDEATION & PLANNING"
                  THEN IDEATION_GUARDRAILS_INIT
                  ELSE PROTOTYPE_GUARDRAILS_INIT)))

\* C15's case: a submission for the PROTOTYPE DEVELOPMENT stage has been
\* looked up, rendered, sent to the generator and decoded to the end.
C15_Witness ==
  /\ form_pc = "done"
  /\ form_creates = 1
  /\ form_input.stage = "PROTOTYPE DEVELOPMENT"
  /\ form_prompt # <<>>
  /\ IsTenQuestions(form_generated)
  /\ \E i \in 1..Len(form_ui) : form_ui[i].el = "json"

\* The outcomes a submission shows: the success message of line 379, the
\* failure message of line 411, the raw output of line 412.
ShowsSuccess ==
  \E i \in 1..Len(form_ui) :
    /\ form_ui[i].el = "success"
    /\ form_ui[i].value = <<"Enhanced survey questions generated!">>

ShowsParseFailure ==
  \E i \in 1..Len(form_ui) :
    /\ form_ui[i].el = "error"
    /\ form_ui[i].value =
         <<"Failed to parse output as JSON. Here's the raw output:">>

ShowsRawOutput == \E i \in 1..Len(form_ui) : form_ui[i].el = "code"

\* C16 (form app): no submission shows the success message together with
\* the failure message or the raw output.
C16_OutcomesExclusive ==
  ~(ShowsSuccess /\ (ShowsParseFailure \/ ShowsRawOutput))

\* Line 415: the message shown for a ValidationError.
ShowsValidationFailed ==
  \E i \in 1..Len(form_ui) :
    /\ form_ui[i].el = "error"
    /\ form_ui[i].value = <<"Input Validation Failed: ">>

=============================================================================
